---- MODULE Spec2Model ----
(***************************************************************************)
(* Model of src/main.py: the Looper that keeps one sticky message as the   *)
(* latest message of each configured Discord channel.                      *)
(*                                                                         *)
(* The program is one thread.  Its steps are cut at the blocking calls     *)
(* (requests.get / requests.delete / requests.post, time.sleep and the     *)
(* file write of update_json); between two steps the platform's other      *)
(* clients (users posting, a moderator deleting) may act.                  *)
(***************************************************************************)
EXTENDS Integers, Sequences, FiniteSets, TLC

\* ------------------------------------------------------------------ bounds
\* How many messages other users post in the whole run.
MaxUserPosts == 1
\* How many messages are removed out-of-band (by a moderator) in the whole run.
MaxModDeletes == 1
\* How many HTTP calls fail (exception or non-success status) in the whole run.
MaxFailures == 1
\* How often the process is killed and started again in the whole run.
MaxCrashes == 1

\* ------------------------------------------------------- program constants
\* json null / Python None, as a message id that no message carries.
None == 0

\* self.channels: the configured channels, in configuration (dict) order.
ConfigOrder == <<"c1", "c2">>

Channels == {ConfigOrder[i] : i \in 1..Len(ConfigOrder)}

\* The non-success statuses the platform answers with in this model.
ErrorStatuses == {429, 500}

\* The exceptions of the requests library that an HTTP call raises here.
TransportErrors == {"Timeout", "ConnectionError"}

\* The persisted file does not exist.
Missing == [c \in {} |-> None]

VARIABLES
    message_ids,  \* self.message_ids: channel -> message id or None
    file,         \* the JSON file's content, <<>> when it does not exist
    fileState,    \* "missing", "ok" or "truncated" (a write that failed midway)
    live,         \* platform: channel -> set of ids of the messages in it
    created,      \* ids of the messages the platform created for this program
    nextId,       \* platform: the next message id (snowflakes increase)
    pc,           \* the program's position
    idx,          \* how many keys of message_ids the for loop has passed
    cur,          \* channel_id of the running try_update
    message_id,   \* valid(): message_id = self.message_ids[channel_id],
                  \* the channel's id when the running try_update started
    startFile,    \* file when the running try_update started
    events,       \* what the running try_update has done, in order
    visited,      \* channels whose try_update returned in this cycle
    escaped,      \* the exception that left run(), "" while it runs
    userPosts, modDeletes, failures,
    crashes       \* how often the process was killed and started again

vars == <<message_ids, file, fileState, live, created, nextId, pc, idx, cur,
          message_id, startFile, events, visited, escaped,
          userPosts, modDeletes, failures, crashes>>

progVars == <<message_ids, file, fileState, pc, idx, cur, message_id,
              startFile, events, visited, escaped>>

\* ----------------------------------------------------------------- helpers
\* An entry of events: op is the call, id the message id it names (the
\* cursor of a GET, the target of a DELETE, the id a POST returned), status
\* the response status (0: no response), exc the exception raised ("": none),
\* newer whether a GET's body was a non-empty list.
Event(op, id, status, exc, newer) ==
    [op |-> op, id |-> id, status |-> status, exc |-> exc, newer |-> newer]

\* for channel_id in self.message_ids: the keys in insertion order.
Keys(ids) == SelectSeq(ConfigOrder, LAMBDA c : c \in DOMAIN ids)

\* not_ok with the comparison inverted.
not_ok_inverted(status) == status = 200

\* Looper.not_ok: is the response not OK (200)?
not_ok(status) == status # 200

\* The delete counted as done only when the platform removed the message.
delete_success_only_204(status) == status = 204

\* The delete counted as done whatever the platform answered.
delete_success_always(status) == TRUE

\* valid(): success = response.status_code in [204, 404]
delete_success(status) == status \in {204, 404}

\* The test of the GET response without the status check.
still_valid_body_only(status, newer) == ~newer

\* The test of the GET response with `and` for `or`.
still_valid_and(status, newer) == not_ok(status) /\ ~newer

\* valid(): `if self.not_ok(response) or not response.json(): return True`
still_valid(status, newer) == not_ok(status) \/ ~newer

\* The id taken from the channel's newest message instead of the response.
json_id_of_channel(c, new) == IF live[c] = {} THEN new
                              ELSE CHOOSE m \in live[c] : \A n \in live[c] : n <= m

\* update(): message_id = response.json()["id"], the id of the message the
\* POST to channel c created.
json_id(c, new) == new

\* try_update swallowing every exception.
caught_everything(exc) == TRUE

\* try_update catching timeouts only.
caught_timeout_only(exc) == exc = "Timeout"

\* try_update: except (Timeout, ConnectionError)
caught(exc) == exc \in {"Timeout", "ConnectionError"}

\* ---------------------------------------------------------------- platform
\* GET .../messages?after=id: the messages of the channel newer than id.
MessagesAfter(c, id) == {m \in live[c] : m > id}

\* DELETE .../messages/id answered by the platform: 204 and the message is
\* gone, or 404 when there is no such message.
DeleteStatus(c, id) == IF id \in live[c] THEN 204 ELSE 404

\* -------------------------------------------------------------------- Init
\* Looper.__init__ with no file: every configured channel starts at None.
Init ==
    /\ message_ids = [c \in Channels |-> None]
    /\ file = Missing
    /\ fileState = "missing"
    /\ live = [c \in Channels |-> {}]
    /\ created = {}
    /\ nextId = 1
    /\ pc = "loop"
    /\ idx = 0
    /\ cur = ConfigOrder[1]
    /\ message_id = None
    /\ startFile = Missing
    /\ events = <<>>
    /\ visited = {}
    /\ escaped = ""
    /\ userPosts = 0
    /\ modDeletes = 0
    /\ failures = 0
    /\ crashes = 0

\* A caught exception answered by trying the same call again at once.
Raise_retry(exc) ==
    IF exc \in {"Timeout", "ConnectionError"}
    THEN /\ pc' = pc
         /\ escaped' = escaped
    ELSE /\ pc' = "dead"
         /\ escaped' = exc

\* An exception raised inside update(): try_update logs it and returns when
\* it is one of the caught types; otherwise it leaves loop() and run().
Raise(exc) ==
    IF caught(exc)
    THEN /\ pc' = "ret"
         /\ escaped' = escaped
    ELSE /\ pc' = "dead"
         /\ escaped' = exc

\* loop(): the for loop calls try_update(channel_id) -> update -> valid,
\* which reads message_id = self.message_ids[channel_id].
TryUpdate ==
    /\ pc = "loop"
    /\ idx < Len(Keys(message_ids))
    /\ LET c == Keys(message_ids)[idx + 1] IN
        /\ cur' = c
        /\ message_id' = message_ids[c]
        /\ pc' = IF message_ids[c] = None THEN "post" ELSE "get"
    /\ startFile' = file
    /\ events' = <<>>
    /\ UNCHANGED <<message_ids, file, fileState, live, created, nextId, idx,
                   visited, escaped, userPosts, modDeletes, failures>>
    /\ UNCHANGED crashes

\* What an HTTP call adds to the run's count of failed calls.
Failing == failures < MaxFailures /\ failures' = failures + 1

\* valid(): requests.get(url, {"after": message_id}); then
\* `if self.not_ok(response) or not response.json(): return True`.
\* The body of an error response is a JSON object, never empty.
Get ==
    /\ pc = "get"
    /\ \/ \E exc \in TransportErrors :
            /\ Failing
            /\ events' = Append(events, Event("GET", message_id, 0, exc, FALSE))
            /\ Raise(exc)
       \/ \E status \in {200} \cup ErrorStatuses :
            LET newer == IF status = 200
                         THEN MessagesAfter(cur, message_id) # {}
                         ELSE TRUE
            IN  /\ IF status = 200 THEN UNCHANGED failures ELSE Failing
                /\ events' = Append(events,
                                    Event("GET", message_id, status, "", newer))
                /\ pc' = IF still_valid(status, newer) THEN "ret" ELSE "sleep"
                /\ escaped' = escaped
    /\ UNCHANGED <<message_ids, file, fileState, live, created, nextId, idx,
                   cur, message_id, startFile, visited, userPosts, modDeletes>>
    /\ UNCHANGED crashes

\* valid(): self.sleep() before the delete.
PreDeleteSleep ==
    /\ pc = "sleep"
    /\ pc' = "delete"
    /\ events' = Append(events, Event("SLEEP", None, 0, "", FALSE))
    /\ UNCHANGED <<message_ids, file, fileState, live, created, nextId, idx,
                   cur, message_id, startFile, visited, escaped, userPosts,
                   modDeletes, failures>>
    /\ UNCHANGED crashes

\* valid(): requests.delete(url + "/" + message_id); on 204 or 404 the id is
\* set to None and update_json follows; otherwise valid returns True and
\* update returns.  A call that raises may or may not have been applied.
Delete ==
    /\ pc = "delete"
    /\ \/ \E exc \in TransportErrors, applied \in BOOLEAN :
            /\ Failing
            /\ live' = IF applied
                       THEN [live EXCEPT ![cur] = @ \ {message_id}]
                       ELSE live
            /\ events' = Append(events, Event("DELETE", message_id, 0, exc, FALSE))
            /\ Raise(exc)
            /\ UNCHANGED message_ids
       \/ \E status \in {DeleteStatus(cur, message_id)} \cup ErrorStatuses :
            /\ IF status \in ErrorStatuses
               THEN Failing /\ UNCHANGED live
               ELSE /\ UNCHANGED failures
                    /\ live' = [live EXCEPT ![cur] = @ \ {message_id}]
            /\ events' = Append(events,
                                Event("DELETE", message_id, status, "", FALSE))
            /\ IF delete_success(status)
               THEN /\ message_ids' = [message_ids EXCEPT ![cur] = None]
                    /\ pc' = "save_deleted"
               ELSE /\ UNCHANGED message_ids
                    /\ pc' = "ret"
            /\ escaped' = escaped
    /\ UNCHANGED <<file, fileState, created, nextId, idx, cur, message_id,
                   startFile, visited, userPosts, modDeletes>>
    /\ UNCHANGED crashes

\* update(): requests.post(url, {"content": ...}); `if self.not_ok(response):
\* return`; else the id of the response is stored and update_json follows.
\* A call that raises may or may not have been applied by the platform.
Post ==
    /\ pc = "post"
    /\ \/ \E exc \in TransportErrors, applied \in BOOLEAN :
            /\ Failing
            /\ IF applied
               THEN /\ live' = [live EXCEPT ![cur] = @ \cup {nextId}]
                    /\ created' = created \cup {nextId}
                    /\ nextId' = nextId + 1
               ELSE UNCHANGED <<live, created, nextId>>
            /\ events' = Append(events, Event("POST", None, 0, exc, FALSE))
            /\ Raise(exc)
            /\ UNCHANGED message_ids
       \/ \E status \in ErrorStatuses :
            /\ Failing
            /\ events' = Append(events, Event("POST", None, status, "", FALSE))
            /\ IF not_ok(status)
               THEN pc' = "ret" /\ escaped' = escaped
               ELSE Raise("KeyError")   \* response.json()["id"] of an error body
            /\ UNCHANGED <<message_ids, live, created, nextId>>
       \/ /\ live' = [live EXCEPT ![cur] = @ \cup {nextId}]
          /\ created' = created \cup {nextId}
          /\ nextId' = nextId + 1
          /\ events' = Append(events, Event("POST", nextId, 200, "", FALSE))
          /\ IF not_ok(200)
             THEN pc' = "ret" /\ UNCHANGED message_ids
             ELSE /\ message_ids' = [message_ids EXCEPT
                                        ![cur] = json_id(cur, nextId)]
                  /\ pc' = "save_created"
          /\ escaped' = escaped
          /\ UNCHANGED failures
    /\ UNCHANGED <<file, fileState, idx, cur, message_id, startFile, visited,
                   userPosts, modDeletes>>
    /\ UNCHANGED crashes

\* update_json that does not reach the file.
update_json_no_write(next) ==
    /\ events' = Append(events, Event("SAVE", message_ids[cur], 0, "", FALSE))
    /\ pc' = next
    /\ UNCHANGED <<message_ids, file, fileState, live, created, nextId, idx,
                   cur, message_id, startFile, visited, escaped, userPosts,
                   modDeletes, failures, crashes>>

\* update_json(): open(filename, 'w') and json.dump(self.message_ids, file).
update_json(next) ==
    /\ file' = message_ids
    /\ fileState' = "ok"
    /\ events' = Append(events, Event("SAVE", message_ids[cur], 0, "", FALSE))
    /\ pc' = next
    /\ UNCHANGED <<message_ids, live, created, nextId, idx, cur, message_id,
                   startFile, visited, escaped, userPosts, modDeletes, failures>>
    /\ UNCHANGED crashes

\* valid() without the update_json call after the delete.
SaveDeleted_skipped ==
    /\ pc = "save_deleted"
    /\ pc' = "post"
    /\ UNCHANGED <<message_ids, file, fileState, live, created, nextId, idx,
                   cur, message_id, startFile, events, visited, escaped,
                   userPosts, modDeletes, failures, crashes>>

\* valid(): update_json after the delete, then `return not success` (False),
\* so update goes on to the create call.
SaveDeleted == pc = "save_deleted" /\ update_json("post")

\* update(): update_json after the create; update and try_update return.
SaveCreated == pc = "save_created" /\ update_json("ret")

\* update_json() raises OSError: open() failed (the file is as it was) or
\* the write failed after open() truncated it.  try_update does not catch it.
SaveFails ==
    /\ pc \in {"save_deleted", "save_created"}
    /\ \E truncated \in BOOLEAN :
         fileState' = IF truncated THEN "truncated" ELSE fileState
    /\ events' = Append(events, Event("SAVE", message_ids[cur], 0, "OSError", FALSE))
    /\ Raise("OSError")
    /\ UNCHANGED <<message_ids, file, live, created, nextId, idx, cur,
                   message_id, startFile, visited, userPosts, modDeletes,
                   failures>>
    /\ UNCHANGED crashes

\* try_update returns to loop(): the for loop moves to the next key.  The
\* locals of the finished call (and the record of what it did) are gone.
Return ==
    /\ pc = "ret"
    /\ pc' = "loop"
    /\ idx' = idx + 1
    /\ visited' = visited \cup {cur}
    /\ message_id' = None
    /\ startFile' = Missing
    /\ events' = <<>>
    /\ UNCHANGED <<message_ids, file, fileState, live, created, nextId, cur,
                   escaped, userPosts, modDeletes, failures>>
    /\ UNCHANGED crashes

\* loop(): self.sleep() after the last channel; run() calls loop() again.
CycleSleep ==
    /\ pc = "loop"
    /\ idx = Len(Keys(message_ids))
    /\ idx' = 0
    /\ visited' = {}
    /\ UNCHANGED <<message_ids, file, fileState, live, created, nextId, pc,
                   cur, message_id, startFile, events, escaped, userPosts,
                   modDeletes, failures>>
    /\ UNCHANGED crashes

\* ------------------------------------------------------------- environment
\* Another user posts a message to channel c.
UserPost(c) ==
    /\ userPosts < MaxUserPosts
    /\ userPosts' = userPosts + 1
    /\ live' = [live EXCEPT ![c] = @ \cup {nextId}]
    /\ nextId' = nextId + 1
    /\ UNCHANGED <<created, modDeletes, failures>>
    /\ UNCHANGED progVars
    /\ UNCHANGED crashes

\* A moderator removes message m of channel c.
ModDelete(c, m) ==
    /\ modDeletes < MaxModDeletes
    /\ m \in live[c]
    /\ modDeletes' = modDeletes + 1
    /\ live' = [live EXCEPT ![c] = @ \ {m}]
    /\ UNCHANGED <<created, nextId, userPosts, failures>>
    /\ UNCHANGED progVars
    /\ UNCHANGED crashes

Env == \E c \in Channels : UserPost(c) \/ \E m \in live[c] : ModDelete(c, m)

\* One step of run().
Step ==
    \/ TryUpdate
    \/ Get
    \/ PreDeleteSleep
    \/ Delete
    \/ SaveDeleted
    \/ Post
    \/ SaveCreated
    \/ Return
    \/ CycleSleep

Next == Step \/ SaveFails \/ Env

Spec == Init /\ [][Next]_vars

\* The loop is scheduled fairly: run() never stops by itself.
LiveSpec == Spec /\ WF_vars(Step)

\* ---------------------------------------------------------------- restarts
\* Looper.__init__: self.message_ids = get_json(filename), and only when
\* there is no file {channel: None for channel in channels}.
Loaded == IF fileState = "missing" THEN [c \in Channels |-> None] ELSE file

\* The process is killed between the POST answered 200 and update_json (the
\* new id is in memory only), and is started again: __init__, then run().
CrashRestart ==
    /\ pc = "save_created"
    /\ crashes < MaxCrashes
    /\ crashes' = crashes + 1
    /\ message_ids' = Loaded
    /\ pc' = "loop"
    /\ idx' = 0
    /\ visited' = {}
    /\ message_id' = None
    /\ startFile' = Missing
    /\ events' = <<>>
    /\ escaped' = ""
    /\ UNCHANGED <<file, fileState, live, created, nextId, cur, userPosts,
                   modDeletes, failures>>

CrashNext == Next \/ CrashRestart

\* Runs in which the process is killed after a create and started again.
CrashSpec == Init /\ [][CrashNext]_vars

\* The position of channel c in the configuration.
Index(c) == CHOOSE i \in 1..Len(ConfigOrder) : ConfigOrder[i] = c

\* The id an earlier run stored for channel c, when it stored ids for the
\* channels S: the channels' stickies were created in configuration order.
StoredId(S, c) == Cardinality({d \in S : Index(d) <= Index(c)})

\* Looper.__init__ in general: there is no file (S empty), or there is the
\* file an earlier run wrote when its configuration held the channels S,
\* each with its sticky as the only message of the channel.
StartInit ==
    \E S \in SUBSET Channels :
        /\ file = [c \in S |-> StoredId(S, c)]
        /\ fileState = IF S = {} THEN "missing" ELSE "ok"
        /\ message_ids = IF S = {} THEN [c \in Channels |-> None]
                                   ELSE [c \in S |-> StoredId(S, c)]
        /\ live = [c \in Channels |-> IF c \in S THEN {StoredId(S, c)} ELSE {}]
        /\ created = {StoredId(S, c) : c \in S}
        /\ nextId = Cardinality(S) + 1
        /\ pc = "loop"
        /\ idx = 0
        /\ cur = ConfigOrder[1]
        /\ message_id = None
        /\ startFile = Missing
        /\ events = <<>>
        /\ visited = {}
        /\ escaped = ""
        /\ userPosts = 0
        /\ modDeletes = 0
        /\ failures = 0
        /\ crashes = 0

\* Runs that start with or without a file of an earlier run.
StartSpec == StartInit /\ [][Next]_vars

\* ------------------------------------------------- reading the event record
HttpOps == {"GET", "DELETE", "POST"}

\* How many events of the running try_update are `op`.
Calls(op) == Cardinality({i \in 1..Len(events) : events[i].op = op})

\* The position of the first `op` event (0: none).
Pos(op) ==
    IF Calls(op) = 0 THEN 0
    ELSE CHOOSE i \in 1..Len(events) :
            /\ events[i].op = op
            /\ \A j \in 1..(i - 1) : events[j].op # op

\* An HTTP call that failed: it raised, or its status is not a success
\* status of that call (section 6 of the specification).
Failed(e) ==
    /\ e.op \in HttpOps
    /\ \/ e.exc # ""
       \/ e.op \in {"GET", "POST"} /\ e.status # 200
       \/ e.op = "DELETE" /\ e.status \notin {204, 404}

SomeCallFailed == \E i \in 1..Len(events) : Failed(events[i])

\* The GET of the running try_update was answered 200 with an empty list.
GotEmpty ==
    /\ Calls("GET") >= 1
    /\ events[Pos("GET")].status = 200
    /\ ~events[Pos("GET")].newer

\* The GET of the running try_update was answered 200 with newer messages.
GotNewer ==
    /\ Calls("GET") >= 1
    /\ events[Pos("GET")].status = 200
    /\ events[Pos("GET")].newer

\* The DELETE of the running try_update was answered 204 or 404.
Deleted ==
    /\ Calls("DELETE") >= 1
    /\ events[Pos("DELETE")].status \in {204, 404}

\* The messages of channel c that this program's POST calls created.
Stickies(c) == live[c] \cap created

\* The id the program holds for c names a message it created that exists and
\* is the newest message of the channel.
StickyOnTop(c) ==
    /\ message_ids[c] # None
    /\ message_ids[c] \in Stickies(c)
    /\ \A m \in live[c] : m <= message_ids[c]

\* ------------------------------------------------------------------ claims

\* C1: liveness.  Users post and calls fail only finitely often (the bounds
\* MaxUserPosts and MaxFailures), the loop is scheduled fairly (LiveSpec) and
\* the process is not killed by a failing file write; then for every channel,
\* eventually and for ever the newest message is a sticky the program
\* created and message_ids names it.
C1_EventuallySticky ==
    \A c \in Channels : [](pc # "dead") => <>[]StickyOnTop(c)

\* C2: a channel never holds more than one live message created by the
\* program, whatever transient failures the calls suffer.
C2_NoDuplicateSticky ==
    \A c \in Channels : Cardinality(Stickies(c)) <= 1

\* C3: when the GET is answered 200 with an empty list (and the reconcile so
\* ends), the message the held id names exists in the channel and is its
\* newest message at that moment, out-of-band removals included.
C3_EmptyMeansStickyOnTop ==
    [][(pc = "get" /\ pc' = "ret" /\ GotEmpty') => StickyOnTop(cur)']_vars

\* C4: a reconcile that starts with the id absent issues exactly one POST and
\* no GET or DELETE; answered 200, the id becomes the returned id and is in
\* the file; answered otherwise (or not at all), the id stays absent.
C4_AbsentMeansOneCreate ==
    (pc = "ret" /\ message_id = None) =>
        /\ Calls("POST") = 1
        /\ Calls("GET") = 0
        /\ Calls("DELETE") = 0
        /\ LET post == events[Pos("POST")] IN
             IF post.status = 200
             THEN /\ post.id # None
                  /\ message_ids[cur] = post.id
                  /\ fileState = "ok"
                  /\ file = message_ids
             ELSE message_ids[cur] = None

C4_Witness ==
    /\ pc = "ret"
    /\ message_id = None
    /\ Calls("POST") = 1
    /\ events[Pos("POST")].status = 200
    /\ file[cur] = events[Pos("POST")].id

\* C5: a GET answered 200 with an empty list ends the reconcile at once: no
\* DELETE, no POST, no save; the id and the file are what they were.
C5_EmptyIsNoOp ==
    GotEmpty =>
        /\ pc = "ret"
        /\ Len(events) = 1
        /\ message_ids[cur] = message_id
        /\ message_id # None
        /\ file = startFile

\* The no-op cycle after an earlier no-op cycle left the user's budget intact.
C5_Witness ==
    /\ GotEmpty
    /\ pc = "ret"
    /\ message_ids[cur] = message_id
    /\ StickyOnTop(cur)

\* C6 as stated: whenever the GET returned newer messages, the reconcile
\* issues exactly one DELETE, then exactly one POST, and ends with an id
\* other than the one it started with.
C6_StaleMeansDeleteThenCreate ==
    (pc = "ret" /\ GotNewer) =>
        /\ Calls("DELETE") = 1
        /\ Calls("POST") = 1
        /\ Pos("DELETE") < Pos("POST")
        /\ message_ids[cur] # message_id

\* C6 as amended: whenever the GET returned newer messages, the reconcile
\* issues exactly one DELETE.  Answered 204 or 404, exactly one POST follows
\* it and the final id is not the original one (the new id when the POST is
\* answered 200, absent otherwise); a DELETE that fails is followed by no
\* POST and the id stays the original one.
C6_StaleMeansDeleteThenCreateIfDeleted ==
    (pc = "ret" /\ GotNewer) =>
        /\ Calls("GET") = 1
        /\ Calls("DELETE") = 1
        /\ Pos("GET") < Pos("DELETE")
        /\ IF events[Pos("DELETE")].status \in {204, 404}
           THEN /\ Calls("POST") = 1
                /\ Pos("DELETE") < Pos("POST")
                /\ message_ids[cur] # message_id
                /\ message_ids[cur] =
                     IF events[Pos("POST")].status = 200
                     THEN events[Pos("POST")].id
                     ELSE None
           ELSE /\ Calls("POST") = 0
                /\ message_ids[cur] = message_id

\* A stale cycle whose DELETE was answered 404 and whose POST succeeded.
C6_Witness ==
    /\ pc = "ret"
    /\ GotNewer
    /\ Calls("DELETE") = 1
    /\ events[Pos("DELETE")].status = 404
    /\ Calls("POST") = 1
    /\ message_ids[cur] \notin {None, message_id}

\* C7: DELETE answered 204 or 404: the id is absent, the absent id is in the
\* file before the POST is issued, and exactly one POST follows in the same
\* reconcile (answered 200, its id is the final id), as long as the file
\* write does not stop the process.  DELETE answered otherwise (or not at
\* all): the reconcile is over, the id is the original one and no POST is
\* issued.
C7_DeleteStatuses ==
    Calls("DELETE") >= 1 =>
        LET del == events[Pos("DELETE")] IN
        IF del.status \in {204, 404}
        THEN /\ pc = "save_deleted" => message_ids[cur] = None
             /\ pc = "post" =>
                    /\ message_ids[cur] = None
                    /\ file = message_ids
                    /\ fileState = "ok"
                    /\ Calls("POST") = 0
             /\ pc \in {"save_created", "ret"} => Calls("POST") = 1
             /\ pc = "ret" =>
                    message_ids[cur] =
                        IF events[Pos("POST")].status = 200
                        THEN events[Pos("POST")].id
                        ELSE None
        ELSE /\ pc = "ret"
             /\ message_ids[cur] = message_id
             /\ file = startFile
             /\ Calls("POST") = 0

\* Scenario C: DELETE M1 -> 404, POST -> 200 with id M2, final id M2.
C7_Witness ==
    /\ pc = "ret"
    /\ Calls("DELETE") = 1
    /\ events[Pos("DELETE")].status = 404
    /\ Calls("POST") = 1
    /\ events[Pos("POST")].status = 200
    /\ message_ids[cur] = events[Pos("POST")].id
    /\ file[cur] = events[Pos("POST")].id

\* The channels the for loop has passed in this cycle.
Passed == {ConfigOrder[i] : i \in 1..idx}

\* C8: a call that raises Timeout or ConnectionError, or is answered with a
\* non-success status, ends the channel's reconcile and nothing else: no
\* exception leaves try_update (only a failed file write stops the process),
\* and the loop goes on with the next channel of the cycle, so that every
\* channel has been reconciled when the cycle's sleep is reached.
C8_FailureIsolation ==
    /\ (events # <<>> /\ Failed(events[Len(events)])) => pc = "ret"
    /\ pc = "dead" => escaped = "OSError"
    /\ pc # "dead" => escaped = ""
    /\ visited = Passed
    /\ pc \notin {"loop", "dead"} => cur = ConfigOrder[idx + 1]
    /\ (pc = "loop" /\ idx = Len(ConfigOrder)) => visited = Channels

\* The first channel's POST failed in this cycle (the one failure there is),
\* and the second channel has been reconciled all the same.
C8_Witness ==
    /\ pc = "ret"
    /\ cur = ConfigOrder[2]
    /\ visited = {ConfigOrder[1]}
    /\ failures = 1
    /\ message_ids[ConfigOrder[1]] = None
    /\ Calls("POST") = 1
    /\ events[Pos("POST")].status = 200
    /\ message_ids[cur] = events[Pos("POST")].id

\* C9 as stated: when a call of the reconcile has failed, the id and the
\* file at its end are what they were at its start.
C9_FailureLeavesStartState ==
    (pc = "ret" /\ SomeCallFailed) =>
        /\ message_ids[cur] = message_id
        /\ file = startFile

\* C9 as amended: a failed call changes neither the id nor the file, so the
\* reconcile ends in the state it had when the failing call was issued: the
\* state of its start, except when the failing call is the POST after a
\* DELETE answered 204 or 404; then the id is absent, in memory and in the
\* file.
C9_FailureLeavesStateOfCall ==
    (pc = "ret" /\ SomeCallFailed) =>
        /\ Failed(events[Len(events)])
        /\ IF Deleted
           THEN /\ events[Len(events)].op = "POST"
                /\ message_ids[cur] = None
                /\ file = message_ids
           ELSE /\ message_ids[cur] = message_id
                /\ file = startFile

\* The POST failed after the DELETE had succeeded.
C9_Witness ==
    /\ pc = "ret"
    /\ Deleted
    /\ Calls("POST") = 1
    /\ Failed(events[Pos("POST")])
    /\ message_id # None
    /\ message_ids[cur] = None
    /\ file[cur] = None

\* C10: a channel's id goes from present to absent only in the step that
\* handles a DELETE of that very id answered 204 or 404.
C10_AbsentOnlyAfterDelete ==
    [][\A c \in Channels :
          (message_ids[c] # None /\ message_ids'[c] = None) =>
              /\ pc = "delete"
              /\ c = cur
              /\ LET del == events'[Len(events')] IN
                    /\ del.op = "DELETE"
                    /\ del.id = message_ids[c]
                    /\ del.status \in {204, 404}]_vars

C10_Witness ==
    /\ pc = "save_deleted"
    /\ message_id # None
    /\ message_ids[cur] = None
    /\ events[Len(events)].op = "DELETE"

\* C11: in a run started with all channels absent, a channel's id is absent
\* or an id the platform created for this program, and it takes a new
\* present value only in the step that handles this channel's POST
\* answered 200, the value being the id of that response: an id that no
\* message of any channel (so no 'messages after' result) carried before.
C11_IdOnlyFromOwnCreate ==
    /\ [](\A c \in Channels : message_ids[c] \in {None} \cup created)
    /\ [][\A c \in Channels :
            (message_ids'[c] # message_ids[c] /\ message_ids'[c] # None) =>
                /\ pc = "post"
                /\ c = cur
                /\ LET post == events'[Len(events')] IN
                      /\ post.op = "POST"
                      /\ post.status = 200
                      /\ post.id = message_ids'[c]
                /\ \A d \in Channels : message_ids'[c] \notin live[d]
                /\ message_ids'[c] \in live'[c]]_vars

\* A repost into a channel that holds a newer message of a user.
C11_Witness ==
    /\ pc = "save_created"
    /\ message_id # None
    /\ message_ids[cur] \in created
    /\ \E m \in live[cur] : m \notin created /\ m > message_id

\* The persisted mapping, a missing file counting as all channels absent.
Persisted == IF fileState = "missing" THEN [c \in Channels |-> None] ELSE file

\* C12: whenever a reconcile starts or has returned (and between cycles),
\* the persisted mapping equals the mapping in memory: every change of an id
\* was saved before the next channel is reconciled; during a reconcile the
\* two differ only between a change and its save.
C12_SavedAfterEveryChange ==
    /\ (pc \in {"loop", "ret"} \/ events = <<>>) => Persisted = message_ids
    /\ pc \in {"get", "sleep", "delete", "post"} => Persisted = message_ids
    /\ (pc \in {"save_deleted", "save_created"}) =>
           /\ Persisted # message_ids
           /\ \A c \in Channels \ {cur} : Persisted[c] = message_ids[c]

\* A reconcile that deleted and created has returned with both changes saved.
C12_Witness ==
    /\ pc = "ret"
    /\ Calls("SAVE") = 2
    /\ file = message_ids
    /\ message_ids[cur] \notin {None, message_id}

\* C13: a failing update_json is not swallowed: the exception leaves
\* try_update and run(), the process is over, and from then on the program
\* does nothing more (no HTTP call for any channel, no change of its state).
C13_SaveFailureIsFatal ==
    /\ []((\E i \in 1..Len(events) : events[i].exc = "OSError") =>
             /\ pc = "dead"
             /\ escaped = "OSError"
             /\ events[Len(events)].exc = "OSError")
    /\ [][pc = "dead" => UNCHANGED progVars]_vars

\* The save after the delete failed; the other channel still waits.
C13_Witness ==
    /\ pc = "dead"
    /\ escaped = "OSError"
    /\ Calls("DELETE") = 1
    /\ Calls("POST") = 0
    /\ cur = ConfigOrder[1]
    /\ visited = {}

\* C14: after one crash between a POST answered 200 and the save of its id,
\* and the restart from the file, a channel never holds more than one live
\* message created by the program besides the one its id names: at most two
\* in all, however many cycles follow.
C14_AtMostOneExtraAfterCrash ==
    crashes = 1 =>
        \A c \in Channels :
            /\ Cardinality(Stickies(c)) <= 2
            /\ Cardinality(Stickies(c) \ {message_ids[c]}) <= 1

\* C15: after startup, with or without a file of an earlier run, the program
\* holds one id (possibly absent) for every configured channel and for no
\* other, so that every configured channel is reconciled.
C15_OneStatePerConfiguredChannel ==
    DOMAIN message_ids = Channels

\* C16: every cycle reconciles each configured channel exactly once, in
\* configuration order and one after the other: a reconcile starts for the
\* next channel of the configuration when exactly the channels before it
\* have returned, nothing moves the loop while a reconcile runs, and the
\* cycle's sleep comes only when every configured channel has returned.
C16_EachChannelOncePerCycleInOrder ==
    [][/\ (pc = "loop" /\ pc' \in {"get", "post"}) =>
              /\ cur' = ConfigOrder[idx + 1]
              /\ visited = Passed
              /\ cur' \notin visited
       /\ (pc \in {"get", "sleep", "delete", "save_deleted", "post",
                   "save_created"}) => (cur' = cur /\ idx' = idx)
       /\ (pc = "ret" /\ pc' = "loop") => visited' = Passed'
       /\ (pc = "loop" /\ visited' # visited) =>
              (visited = Channels /\ idx = Len(ConfigOrder))]_vars

\* C17: a GET answered with a status other than 200 ends the channel's
\* reconcile at once: no DELETE, no POST, no save, id and file unchanged;
\* and as the id is unchanged, the reconcile of a channel with a present id
\* always issues its GET with the id the program holds as cursor.
C17_GetErrorAborts ==
    /\ (Calls("GET") >= 1 /\ events[Pos("GET")].status \notin {0, 200}) =>
           /\ pc = "ret"
           /\ Len(events) = 1
           /\ message_ids[cur] = message_id
           /\ message_id # None
           /\ file = startFile
    /\ pc = "get" => (message_id # None /\ message_id = message_ids[cur])
    /\ Calls("GET") >= 1 =>
           (Pos("GET") = 1 /\ events[1].id = message_id /\ message_id # None)
    /\ (pc = "post" /\ events = <<>>) => message_ids[cur] = None

C17_Witness ==
    /\ pc = "ret"
    /\ Calls("GET") = 1
    /\ events[1].status = 500
    /\ message_ids[cur] = message_id
    /\ MessagesAfter(cur, message_id) # {}

\* The calls of a stale cycle, in the order of the code.
StaleOrder == <<"GET", "SLEEP", "DELETE", "SAVE", "POST", "SAVE">>

\* C18: a reconcile whose GET returned newer messages does, in this order:
\* GET(after=id), the delay, DELETE(id); after 204/404 the id is absent in
\* memory, the absent id is saved, then the POST; after 200 the new id is
\* in memory and saved.  The delay precedes the DELETE and the absent id is
\* in the file before the POST is issued.
C18_StaleCycleOrder ==
    GotNewer =>
        /\ Len(events) <= Len(StaleOrder)
        /\ \A i \in 1..Len(events) : events[i].op = StaleOrder[i]
        /\ pc = "sleep" <=> Len(events) = 1
        /\ pc = "delete" <=> Len(events) = 2
        /\ Len(events) >= 3 => events[3].id = message_id
        /\ pc = "save_deleted" <=>
              (Len(events) = 3 /\ events[3].status \in {204, 404})
        /\ pc = "save_deleted" => message_ids[cur] = None
        /\ Len(events) >= 4 =>
              /\ events[3].status \in {204, 404}
              /\ events[4].id = None
        /\ pc = "post" <=> (Len(events) = 4 /\ events[4].exc = "")
        /\ pc = "post" =>
              (message_ids[cur] = None /\ file[cur] = None /\ fileState = "ok")
        /\ Len(events) >= 5 => events[4].exc = ""
        /\ pc = "save_created" <=>
              (Len(events) = 5 /\ events[5].status = 200)
        /\ pc = "save_created" =>
              (message_ids[cur] = events[5].id /\ file[cur] = None)
        /\ Len(events) = 6 =>
              /\ events[5].status = 200
              /\ events[6].id = events[5].id
              /\ message_ids[cur] = events[5].id
              /\ events[6].exc = "" => (pc = "ret" /\ file[cur] = events[5].id)

C18_Witness ==
    /\ GotNewer
    /\ pc = "ret"
    /\ Len(events) = 6
    /\ events[3].status = 204
    /\ file[cur] = events[5].id

C20_PostOnlyWhenAbsent ==
    [][(pc = "post" /\ Calls("POST")' = Calls("POST") + 1) =>
          /\ message_ids[cur] = None
          /\ Persisted[cur] = None]_vars

\* The POST of a repost is about to be issued, the absent id in the file.
C20_Witness ==
    /\ pc = "post"
    /\ message_id # None
    /\ message_ids[cur] = None
    /\ fileState = "ok"
    /\ file[cur] = None

====
